---- MODULE Spec2Model ----
(***************************************************************************)
(* A model of subctl's broker deployment sequencer (pkg/deploy/broker.go)  *)
(* and of the gather command (cmd/subctl gather).                          *)
(*                                                                         *)
(* Errors are sequences of strings, outermost context first; the empty     *)
(* sequence is Go's nil error.  The target cluster is a record of the four *)
(* objects the sequencer touches; an object is <<>> when absent and        *)
(* <<desired>> when present.                                               *)
(***************************************************************************)
EXTENDS Integers, Sequences, FiniteSets, TLC

\* ------------------------------------------------------------------ bounds

MaxComponents == 2
MaxSize == 4
MaxRuns == 2
MaxArgs == 2
MaxContexts == 3

\* --------------------------------------------------------------- constants

ServiceDiscovery == "service-discovery"
Connectivity == "connectivity"
Globalnet == "globalnet"

\* The names a caller may put in BrokerSpec.Components.
ComponentNames == {ServiceDiscovery, Connectivity, Globalnet, "bogus"}

\* The range strings a caller may put in BrokerSpec.GlobalnetCIDRRange.
CIDRs == {"not-a-cidr", "127.0.0.0/30", "242.0.0.0/30", "243.0.0.0/29"}

BrokerNamespaceName == "submariner-k8s-broker"
OperatorNamespace == "submariner-operator"

\* var ValidComponents = []string{component.ServiceDiscovery, component.Connectivity}
ValidComponents == <<ServiceDiscovery, Connectivity>>

\* ----------------------------------------------------------------- helpers

NoError == <<>>

SeqsUpTo(S, n) == UNION {[1..k -> S] : k \in 0..n}

\* sets.New(list...): the set of a list's elements, duplicates dropped.
SetsNew(list) == {list[i] : i \in DOMAIN list}

\* status.Error(err, message): nil stays nil, otherwise the message wraps err.
StatusError(e, message) == IF e = NoError THEN NoError ELSE <<message>> \o e

\* A collaborator's failure while talking to the cluster.
TransportError == <<"cluster API request failed">>

\* ------------------------------------------------- globalnet (collaborator)

\* net.ParseCIDR: the number of addresses of the range, 0 when it is malformed.
AddressCount(cidr) ==
    CASE cidr = "127.0.0.0/30" -> 4
      [] cidr = "242.0.0.0/30" -> 4
      [] cidr = "243.0.0.0/29" -> 8
      [] OTHER -> 0

IsPowerOf2(n) == \E k \in 0..n : 2^k = n

\* globalnet.IsValidCIDR: the range parses and is not a reserved one.
IsValidCIDR(cidr) ==
    IF AddressCount(cidr) = 0 THEN <<"invalid CIDR", cidr>>
    ELSE IF cidr = "127.0.0.0/30" THEN <<"reserved CIDR", cidr>>
    ELSE NoError

\* globalnet.GetValidClusterSize: (size, err).  A zero size is replaced by a
\* default derived from the range; a supplied size must be a power of two
\* strictly less than the number of addresses of the range.
GetValidClusterSize(cidr, clusterSize) ==
    LET total == AddressCount(cidr)
        fits(n) == IsPowerOf2(n) /\ n < total
    IN  IF total = 0 THEN [size |-> 0, err |-> <<"invalid CIDR", cidr>>]
        ELSE IF clusterSize = 0
             THEN IF \E n \in 1..total : fits(n)
                  THEN [size |-> CHOOSE n \in 1..total :
                                    fits(n) /\ \A m \in 1..total : fits(m) => m <= n,
                        err |-> NoError]
                  ELSE [size |-> 0, err |-> <<"range too small", cidr>>]
        ELSE IF fits(clusterSize) THEN [size |-> clusterSize, err |-> NoError]
        ELSE [size |-> 0, err |-> <<"cluster size does not fit", cidr>>]

\* globalnet.ValidateExistingGlobalNetworks(ctx, client, namespace): it is
\* given the cluster and the namespace only, never the requested range.
ValidateExistingGlobalNetworks(cl, namespace, fault) ==
    IF fault THEN TransportError
    ELSE IF cl.configMap # <<>> /\ IsValidCIDR(cl.configMap[1].range) # NoError
         THEN <<"invalid GlobalnetCidrRange">> \o IsValidCIDR(cl.configMap[1].range)
    ELSE NoError

\* globalnet.CreateConfigMap: the record is created when absent and kept as
\* it is when present.
CreateConfigMap(cl, enabled, range, size, namespace, fault) ==
    IF fault THEN [cluster |-> cl, err |-> TransportError]
    ELSE IF cl.configMap = <<>>
         THEN [cluster |-> [cl EXCEPT !.configMap =
                               <<[enabled |-> enabled, range |-> range, size |-> size,
                                  namespace |-> namespace]>>],
               err |-> NoError]
    ELSE [cluster |-> cl, err |-> NoError]

\* ----------------------------------------- Ensure appliers (collaborators)

\* broker.Ensure: the RBAC objects for the given component list.
BrokerEnsure(cl, components, namespace, fault) ==
    IF fault THEN [cluster |-> cl, err |-> TransportError]
    ELSE [cluster |-> [cl EXCEPT !.rbac =
                          <<[components |-> components, namespace |-> namespace]>>],
          err |-> NoError]

\* image.NewRepositoryInfo(repository, version, nil).GetOperatorImage()
GetOperatorImage(repository, version) == <<repository, "/submariner-operator:", version>>

\* operator.Ensure: the operator deployment with the given image.
OperatorEnsure(cl, namespace, image, debug, fault) ==
    IF fault THEN [cluster |-> cl, err |-> TransportError]
    ELSE [cluster |-> [cl EXCEPT !.operator =
                          <<[namespace |-> namespace, image |-> image, debug |-> debug]>>],
          err |-> NoError]

\* brokercr.Ensure: the broker object with the given BrokerSpec.
BrokerCREnsure(cl, namespace, brokerSpec, fault) ==
    IF fault THEN [cluster |-> cl, err |-> TransportError]
    ELSE [cluster |-> [cl EXCEPT !.brokerCR =
                          <<[namespace |-> namespace, spec |-> brokerSpec]>>],
          err |-> NoError]

\* ------------------------------------------------------------- validators

\* isValidComponents without its check of the set's size.
isValidComponentsAcceptsEmpty(componentSet) ==
    LET validComponentSet == SetsNew(ValidComponents)
    IN  IF \E c \in componentSet : c \notin validComponentSet
        THEN {<<"unknown component: ", c>> : c \in componentSet \ validComponentSet}
        ELSE {NoError}

\* isValidComponents naming any member of a set that has an unknown one.
isValidComponentsNamesAnyMember(componentSet) ==
    LET validComponentSet == SetsNew(ValidComponents)
    IN  IF Cardinality(componentSet) < 1
        THEN {<<"at least one component must be provided for deployment">>}
        ELSE IF \E c \in componentSet : c \notin validComponentSet
             THEN {<<"unknown component: ", c>> : c \in componentSet}
        ELSE {NoError}

\* isValidComponents: the errors it may return for a set (the set's iteration
\* order decides which unknown member is named).
isValidComponents(componentSet) ==
    LET validComponentSet == SetsNew(ValidComponents)
    IN  IF Cardinality(componentSet) < 1
        THEN {<<"at least one component must be provided for deployment">>}
        ELSE IF \E c \in componentSet : c \notin validComponentSet
             THEN {<<"unknown component: ", c>> : c \in componentSet \ validComponentSet}
        ELSE {NoError}

\* checkGlobalnetConfig without the return for a disabled globalnet.
checkGlobalnetConfigAlways(o) ==
    LET r == GetValidClusterSize(o.BrokerSpec.GlobalnetCIDRRange,
                                 o.BrokerSpec.DefaultGlobalnetClusterSize)
        o2 == [o EXCEPT !.BrokerSpec.DefaultGlobalnetClusterSize = r.size]
    IN  IF r.err # NoError THEN [options |-> o2, err |-> r.err]
        ELSE [options |-> o2, err |-> IsValidCIDR(o.BrokerSpec.GlobalnetCIDRRange)]

\* checkGlobalnetConfig returning after the size, the range left unchecked.
checkGlobalnetConfigNoCIDRCheck(o) ==
    IF ~o.BrokerSpec.GlobalnetEnabled THEN [options |-> o, err |-> NoError]
    ELSE LET r == GetValidClusterSize(o.BrokerSpec.GlobalnetCIDRRange,
                                      o.BrokerSpec.DefaultGlobalnetClusterSize)
             o2 == [o EXCEPT !.BrokerSpec.DefaultGlobalnetClusterSize = r.size]
         IN  [options |-> o2, err |-> r.err]

\* checkGlobalnetConfig keeping the size it computed to itself.
checkGlobalnetConfigKeepsSize(o) ==
    IF ~o.BrokerSpec.GlobalnetEnabled THEN [options |-> o, err |-> NoError]
    ELSE LET r == GetValidClusterSize(o.BrokerSpec.GlobalnetCIDRRange,
                                      o.BrokerSpec.DefaultGlobalnetClusterSize)
         IN  IF r.err # NoError THEN [options |-> o, err |-> r.err]
             ELSE [options |-> o, err |-> IsValidCIDR(o.BrokerSpec.GlobalnetCIDRRange)]

\* checkGlobalnetConfig storing the size only once both checks passed.
checkGlobalnetConfigWritesOnSuccess(o) ==
    IF ~o.BrokerSpec.GlobalnetEnabled THEN [options |-> o, err |-> NoError]
    ELSE LET r == GetValidClusterSize(o.BrokerSpec.GlobalnetCIDRRange,
                                      o.BrokerSpec.DefaultGlobalnetClusterSize)
             o2 == [o EXCEPT !.BrokerSpec.DefaultGlobalnetClusterSize = r.size]
             e == IF r.err # NoError THEN r.err
                  ELSE IsValidCIDR(o.BrokerSpec.GlobalnetCIDRRange)
         IN  [options |-> IF e = NoError THEN o2 ELSE o, err |-> e]

\* checkGlobalnetConfig: (options, err); options is the caller's struct as
\* the call leaves it.
checkGlobalnetConfig(o) ==
    IF ~o.BrokerSpec.GlobalnetEnabled THEN [options |-> o, err |-> NoError]
    ELSE LET r == GetValidClusterSize(o.BrokerSpec.GlobalnetCIDRRange,
                                      o.BrokerSpec.DefaultGlobalnetClusterSize)
             o2 == [o EXCEPT !.BrokerSpec.DefaultGlobalnetClusterSize = r.size]
         IN  IF r.err # NoError THEN [options |-> o2, err |-> r.err]
             ELSE [options |-> o2, err |-> IsValidCIDR(o.BrokerSpec.GlobalnetCIDRRange)]

\* ------------------------------------------------------------------ state

VARIABLES
    pc,            \* where the Broker call stands
    input,         \* the BrokerOptions as the caller supplied them
    options,       \* the BrokerOptions struct (checkGlobalnetConfig writes it)
    componentSet,  \* Broker's local component set
    err,           \* the error Broker returned (NoError while it runs)
    calls,         \* the collaborator calls of this run, in order, with results
    cluster,       \* the target cluster's objects
    run,           \* the number of this Broker run
    startCluster,  \* the cluster as this run found it
    prevErr,       \* what the run before this one returned
    gpc,           \* where the gather command stands
    gopts,         \* gather.Options: Types, Modules, Directory
    contexts,      \* the cluster contexts the command was given
    collected,     \* gather.Data's calls so far: the context and what it returned
    results,       \* what the callback returned to RunOnAllContexts, per call
    exited,        \* the command's exit: code and message
    rpc,           \* where the RHOS RunOn call stands
    rconfig,       \* RunOn's Config struct
    rsteps,        \* RunOn's preparation steps so far, with results
    rinvoked,      \* the CloudInfo of each call of the supplied function
    rerr,          \* the error RunOn returned
    cpc,           \* concurrent Broker runs: where each stands
    copts,         \* concurrent Broker runs: each run's BrokerOptions
    cerr,          \* concurrent Broker runs: the error each returned
    ccalls,        \* concurrent Broker runs: each run's collaborator calls
    cseen,         \* concurrent Broker runs: the object each applier read
    ccluster       \* the cluster the concurrent runs share, with versions

bvars == <<pc, input, options, componentSet, err, calls, cluster, run, startCluster, prevErr>>
gvars == <<gpc, gopts, contexts, collected, results, exited>>
rvars == <<rpc, rconfig, rsteps, rinvoked, rerr>>
cvars == <<cpc, copts, cerr, ccalls, cseen, ccluster>>
vars == <<bvars, gvars, rvars, cvars>>

BrokerSpecs ==
    [Components : SeqsUpTo(ComponentNames, MaxComponents),
     GlobalnetEnabled : BOOLEAN,
     GlobalnetCIDRRange : CIDRs,
     DefaultGlobalnetClusterSize : 0..MaxSize]

BrokerOptions(spec) ==
    [OperatorDebug |-> FALSE,
     Repository |-> "quay.io/submariner",
     ImageVersion |-> "0.16.0",
     BrokerNamespace |-> BrokerNamespaceName,
     BrokerSpec |-> spec]

EmptyCluster == [rbac |-> <<>>, operator |-> <<>>, brokerCR |-> <<>>, configMap |-> <<>>]

\* The cluster a successful Broker run with the given (valid) spec leaves
\* behind when it starts from an empty one.
Deployed(spec) ==
    LET o == checkGlobalnetConfig(BrokerOptions(spec)).options
        c1 == BrokerEnsure(EmptyCluster, o.BrokerSpec.Components, o.BrokerNamespace, FALSE).cluster
        c2 == OperatorEnsure(c1, OperatorNamespace,
                             GetOperatorImage(o.Repository, o.ImageVersion),
                             o.OperatorDebug, FALSE).cluster
        c3 == BrokerCREnsure(c2, o.BrokerNamespace, o.BrokerSpec, FALSE).cluster
    IN  CreateConfigMap(c3, o.BrokerSpec.GlobalnetEnabled, o.BrokerSpec.GlobalnetCIDRRange,
                        o.BrokerSpec.DefaultGlobalnetClusterSize, o.BrokerNamespace, FALSE).cluster

\* Earlier deployments the target cluster may already hold.
PriorSpecs ==
    {[Components |-> <<ServiceDiscovery>>, GlobalnetEnabled |-> TRUE,
      GlobalnetCIDRRange |-> "242.0.0.0/30", DefaultGlobalnetClusterSize |-> 0],
     [Components |-> <<Connectivity>>, GlobalnetEnabled |-> FALSE,
      GlobalnetCIDRRange |-> "not-a-cidr", DefaultGlobalnetClusterSize |-> 0]}

InitClusters == {EmptyCluster} \cup {Deployed(s) : s \in PriorSpecs}

\* The gather command is not running.
GatherIdle ==
    /\ gpc = "idle"
    /\ gopts = [Types |-> <<>>, Modules |-> <<>>, Directory |-> <<>>]
    /\ contexts = <<>>
    /\ collected = <<>>
    /\ results = <<>>
    /\ exited = [code |-> 0, message |-> NoError]

\* RHOS RunOn is not running.
RhosIdle ==
    /\ rpc = "idle"
    /\ rconfig = <<>>
    /\ rsteps = <<>>
    /\ rinvoked = <<>>
    /\ rerr = NoError

\* No concurrent Broker runs.
ConcIdle ==
    /\ cpc = <<>>
    /\ copts = <<>>
    /\ cerr = <<>>
    /\ ccalls = <<>>
    /\ cseen = <<>>
    /\ ccluster = <<>>

Init ==
    /\ pc = "Broker"
    /\ input \in {BrokerOptions(s) : s \in BrokerSpecs}
    /\ options = input
    /\ componentSet = {}
    /\ err = NoError
    /\ calls = <<>>
    /\ cluster \in InitClusters
    /\ run = 1
    /\ startCluster = cluster
    /\ prevErr = NoError
    /\ GatherIdle
    /\ RhosIdle
    /\ ConcIdle

\* ---------------------------------------------------------------- Broker

Call(step, e) == [step |-> step, err |-> e]

Return(e) == pc' = "done" /\ err' = e

\* Broker with broker.Ensure called before checkGlobalnetConfig's error is
\* looked at.
BrokerValidateRBACFirst ==
    /\ pc = "Broker"
    /\ LET cs == SetsNew(options.BrokerSpec.Components)
       IN  \E e \in isValidComponents(cs) :
             IF e # NoError
             THEN /\ Return(StatusError(e, "invalid components parameter"))
                  /\ componentSet' = cs
                  /\ UNCHANGED <<options, calls, cluster>>
             ELSE LET r == checkGlobalnetConfig(options)
                      b == BrokerEnsure(cluster, options.BrokerSpec.Components,
                                        options.BrokerNamespace, FALSE)
                  IN  /\ componentSet' = IF options.BrokerSpec.GlobalnetEnabled
                                         THEN cs \cup {Globalnet} ELSE cs
                      /\ options' = r.options
                      /\ cluster' = b.cluster
                      /\ calls' = Append(calls, Call("rbac", b.err))
                      /\ IF r.err # NoError
                         THEN Return(StatusError(r.err, "invalid GlobalCIDR configuration"))
                         ELSE pc' = "deployOperator" /\ UNCHANGED err
    /\ UNCHANGED <<input, run, startCluster, prevErr>>
    /\ UNCHANGED <<gvars, rvars, cvars>>

\* Broker, lines 51-64: the two validators, before any collaborator is called.
BrokerValidate ==
    /\ pc = "Broker"
    /\ LET cs == SetsNew(options.BrokerSpec.Components)
       IN  \E e \in isValidComponents(cs) :
             IF e # NoError
             THEN /\ Return(StatusError(e, "invalid components parameter"))
                  /\ componentSet' = cs
                  /\ UNCHANGED options
             ELSE LET r == checkGlobalnetConfig(options)
                  IN  /\ componentSet' = IF options.BrokerSpec.GlobalnetEnabled
                                         THEN cs \cup {Globalnet} ELSE cs
                      /\ options' = r.options
                      /\ IF r.err # NoError
                         THEN Return(StatusError(r.err, "invalid GlobalCIDR configuration"))
                         ELSE pc' = "deployRBAC" /\ UNCHANGED err
    /\ UNCHANGED <<input, calls, cluster, run, startCluster, prevErr>>
    /\ UNCHANGED <<gvars, rvars, cvars>>

\* deploy reporting a failure of broker.Ensure as the operator step's.
DeployRBACWrongContext ==
    /\ pc = "deployRBAC"
    /\ \E fault \in BOOLEAN :
         LET r == BrokerEnsure(cluster, options.BrokerSpec.Components,
                               options.BrokerNamespace, fault)
         IN  /\ cluster' = r.cluster
             /\ calls' = Append(calls, Call("rbac", r.err))
             /\ IF r.err # NoError
                THEN Return(StatusError(r.err, "error deploying Submariner operator"))
                ELSE pc' = "deployOperator" /\ UNCHANGED err
    /\ UNCHANGED <<input, options, componentSet, run, startCluster, prevErr>>
    /\ UNCHANGED <<gvars, rvars, cvars>>

\* deploy, lines 86-93: broker.Ensure.
DeployRBAC ==
    /\ pc = "deployRBAC"
    /\ \E fault \in BOOLEAN :
         LET r == BrokerEnsure(cluster, options.BrokerSpec.Components,
                               options.BrokerNamespace, fault)
         IN  /\ cluster' = r.cluster
             /\ calls' = Append(calls, Call("rbac", r.err))
             /\ IF r.err # NoError
                THEN Return(StatusError(r.err, "error setting up broker RBAC"))
                ELSE pc' = "deployOperator" /\ UNCHANGED err
    /\ UNCHANGED <<input, options, componentSet, run, startCluster, prevErr>>
    /\ UNCHANGED <<gvars, rvars, cvars>>

\* deploy going on to the broker object after operator.Ensure failed.
DeployOperatorContinues ==
    /\ pc = "deployOperator"
    /\ \E fault \in BOOLEAN :
         LET r == OperatorEnsure(cluster, OperatorNamespace,
                                 GetOperatorImage(options.Repository, options.ImageVersion),
                                 options.OperatorDebug, fault)
         IN  /\ cluster' = r.cluster
             /\ calls' = Append(calls, Call("operator", r.err))
             /\ pc' = "deployBroker"
             /\ UNCHANGED err
    /\ UNCHANGED <<input, options, componentSet, run, startCluster, prevErr>>
    /\ UNCHANGED <<gvars, rvars, cvars>>

\* deploy, lines 95-102: operator.Ensure.
DeployOperator ==
    /\ pc = "deployOperator"
    /\ \E fault \in BOOLEAN :
         LET r == OperatorEnsure(cluster, OperatorNamespace,
                                 GetOperatorImage(options.Repository, options.ImageVersion),
                                 options.OperatorDebug, fault)
         IN  /\ cluster' = r.cluster
             /\ calls' = Append(calls, Call("operator", r.err))
             /\ IF r.err # NoError
                THEN Return(StatusError(r.err, "error deploying Submariner operator"))
                ELSE pc' = "deployBroker" /\ UNCHANGED err
    /\ UNCHANGED <<input, options, componentSet, run, startCluster, prevErr>>
    /\ UNCHANGED <<gvars, rvars, cvars>>

\* The existing configuration validated whether globalnet is enabled or not.
AlwaysValidateExisting(o) == TRUE

\* Broker, line 71: the existing configuration is validated only with
\* globalnet enabled.
NeedsValidateExisting(o) == o.BrokerSpec.GlobalnetEnabled

\* deploy starting over at the RBAC step when brokercr.Ensure failed.
DeployBrokerCRStartsOver ==
    /\ pc = "deployBroker"
    /\ \E fault \in BOOLEAN :
         LET r == BrokerCREnsure(cluster, options.BrokerNamespace, options.BrokerSpec, fault)
         IN  /\ cluster' = r.cluster
             /\ calls' = Append(calls, Call("brokercr", r.err))
             /\ IF StatusError(r.err, "Broker deployment failed") # NoError
                THEN pc' = "deployRBAC" /\ UNCHANGED err
                ELSE /\ pc' = IF NeedsValidateExisting(options)
                              THEN "validateExisting" ELSE "createConfigMap"
                     /\ UNCHANGED err
    /\ UNCHANGED <<input, options, componentSet, run, startCluster, prevErr>>
    /\ UNCHANGED <<gvars, rvars, cvars>>

\* deploy, lines 104-108, and Broker, lines 66-71: brokercr.Ensure.
DeployBrokerCR ==
    /\ pc = "deployBroker"
    /\ \E fault \in BOOLEAN :
         LET r == BrokerCREnsure(cluster, options.BrokerNamespace, options.BrokerSpec, fault)
         IN  /\ cluster' = r.cluster
             /\ calls' = Append(calls, Call("brokercr", r.err))
             /\ IF StatusError(r.err, "Broker deployment failed") # NoError
                THEN Return(StatusError(r.err, "Broker deployment failed"))
                ELSE /\ pc' = IF NeedsValidateExisting(options)
                              THEN "validateExisting" ELSE "createConfigMap"
                     /\ UNCHANGED err
    /\ UNCHANGED <<input, options, componentSet, run, startCluster, prevErr>>
    /\ UNCHANGED <<gvars, rvars, cvars>>

\* Broker, lines 72-74: globalnet.ValidateExistingGlobalNetworks.
BrokerValidateExisting ==
    /\ pc = "validateExisting"
    /\ \E fault \in BOOLEAN :
         LET e == ValidateExistingGlobalNetworks(cluster, options.BrokerNamespace, fault)
         IN  /\ calls' = Append(calls, Call("validateExisting", e))
             /\ IF e # NoError
                THEN Return(StatusError(e, "error validating existing globalCIDR configmap"))
                ELSE pc' = "createConfigMap" /\ UNCHANGED err
    /\ UNCHANGED <<input, options, componentSet, cluster, run, startCluster, prevErr>>
    /\ UNCHANGED <<gvars, rvars, cvars>>

\* Broker, lines 77-82: globalnet.CreateConfigMap, then the return.
BrokerCreateConfigMap ==
    /\ pc = "createConfigMap"
    /\ \E fault \in BOOLEAN :
         LET r == CreateConfigMap(cluster, options.BrokerSpec.GlobalnetEnabled,
                                  options.BrokerSpec.GlobalnetCIDRRange,
                                  options.BrokerSpec.DefaultGlobalnetClusterSize,
                                  options.BrokerNamespace, fault)
         IN  /\ cluster' = r.cluster
             /\ calls' = Append(calls, Call("createConfigMap", r.err))
             /\ Return(StatusError(r.err, "error creating globalCIDR configmap on Broker"))
    /\ UNCHANGED <<input, options, componentSet, run, startCluster, prevErr>>
    /\ UNCHANGED <<gvars, rvars, cvars>>

\* The caller runs Broker again with the input of the run before.
Rerun ==
    /\ pc = "done"
    /\ run < MaxRuns
    /\ pc' = "Broker"
    /\ run' = run + 1
    /\ options' = input
    /\ componentSet' = {}
    /\ err' = NoError
    /\ calls' = <<>>
    /\ startCluster' = cluster
    /\ prevErr' = err
    /\ UNCHANGED <<input, cluster>>
    /\ UNCHANGED <<gvars, rvars, cvars>>

\* ---------------------------------------------------------------- gather

\* gather.AllTypes and gather.AllModules: the known type and module sets.
AllTypes == {"logs", "resources"}
AllModules == {"connectivity", "service-discovery", "broker", "operator"}

\* The values a caller may give --type and --module.
TypeNames == AllTypes \cup {"badvalue"}
ModuleNames == AllModules \cup {"badmodule"}

ContextNames == <<"cluster1", "cluster2", "cluster3", "cluster4">>

\* time.Now().UTC().Format("20060102150405")
Timestamps == {"20261104193000", "20261104193001"}

\* The index of the first element of list that is not in S, 0 when all are.
FirstNotIn(list, S) ==
    IF \E i \in DOMAIN list : list[i] \notin S
    THEN CHOOSE i \in DOMAIN list :
             list[i] \notin S /\ \A j \in 1..(i - 1) : list[j] \in S
    ELSE 0

\* checkGatherArguments without its loop over the modules.
checkGatherArgumentsTypesOnly(o) ==
    LET t == FirstNotIn(o.Types, AllTypes)
    IN  IF t # 0 THEN <<"\"", o.Types[t], "\" is not a supported type">>
        ELSE NoError

\* checkGatherArguments: the types are checked first, then the modules.
checkGatherArguments(o) ==
    LET t == FirstNotIn(o.Types, AllTypes)
        m == FirstNotIn(o.Modules, AllModules)
    IN  IF t # 0 THEN <<"\"", o.Types[t], "\" is not a supported type">>
        ELSE IF m # 0 THEN <<"\"", o.Modules[m], "\" is not a supported module">>
        ELSE NoError

\* exit.OnErrorWithMessage: the process ends with code 1 on an error.
OnErrorWithMessage(e, message) ==
    [code |-> IF e = NoError THEN 0 ELSE 1, message |-> StatusError(e, message)]

\* exit.OnError, the last statement of Run: code 1 on an error, 0 otherwise.
OnError(e) == [code |-> IF e = NoError THEN 0 ELSE 1, message |-> e]

\* gather.Data on one cluster context: it succeeds or fails.
GatherData(context, o, fails) ==
    IF fails THEN <<"failed to gather data from cluster", context>> ELSE NoError

\* The function handed to RunOnAllContexts dropping gather.Data's error.
GatherCallbackSwallows(dataErr) == NoError

\* The function Run hands to RunOnAllContexts: gather.Data's error, as it is.
GatherCallback(dataErr) == dataErr

\* RunOnAllContexts' result once every context was visited: nil when every
\* call returned nil, otherwise an error naming the contexts whose call failed.
RunOnAllContextsResult(ctxs, rs) ==
    LET failed == {i \in DOMAIN rs : rs[i] # NoError}
        names[i \in 0..Len(rs)] ==
            IF i = 0 THEN <<>>
            ELSE IF i \in failed THEN Append(names[i - 1], ctxs[i]) ELSE names[i - 1]
    IN  IF failed = {} THEN NoError
        ELSE <<"failed on cluster contexts">> \o names[Len(rs)]

GatherOptions ==
    [Types : SeqsUpTo(TypeNames, MaxArgs),
     Modules : SeqsUpTo(ModuleNames, MaxArgs),
     Directory : {<<>>, <<"out">>}]

\* The Broker call is not running.
BrokerIdle ==
    /\ pc = "idle"
    /\ input = BrokerOptions([Components |-> <<>>, GlobalnetEnabled |-> FALSE,
                              GlobalnetCIDRRange |-> "not-a-cidr",
                              DefaultGlobalnetClusterSize |-> 0])
    /\ options = input
    /\ componentSet = {}
    /\ err = NoError
    /\ calls = <<>>
    /\ cluster = EmptyCluster
    /\ run = 1
    /\ startCluster = cluster
    /\ prevErr = NoError

GatherInit ==
    /\ BrokerIdle
    /\ RhosIdle
    /\ ConcIdle
    /\ gpc = "Run"
    /\ gopts \in GatherOptions
    /\ contexts \in {SubSeq(ContextNames, 1, n) : n \in 1..MaxContexts}
    /\ collected = <<>>
    /\ results = <<>>
    /\ exited = [code |-> 0, message |-> NoError]

\* gatherCmd.Run, lines 46-53: the default directory and the check of the
\* arguments, which ends the command when it fails.
GatherRun ==
    /\ gpc = "Run"
    /\ \E now \in Timestamps :
         LET o == IF gopts.Directory = <<>>
                  THEN [gopts EXCEPT !.Directory = <<"submariner-", now>>]
                  ELSE gopts
             e == checkGatherArguments(o)
         IN  /\ gopts' = o
             /\ IF e # NoError
                THEN gpc' = "exited" /\ exited' = OnErrorWithMessage(e, "Invalid argument")
                ELSE gpc' = "RunOnAllContexts" /\ UNCHANGED exited
    /\ UNCHANGED <<contexts, collected, results>>
    /\ UNCHANGED <<bvars, rvars, cvars>>

\* gatherCmd.Run, lines 55-58: RunOnAllContexts calls the function on the
\* next context.
GatherOnContext ==
    /\ gpc = "RunOnAllContexts"
    /\ Len(results) < Len(contexts)
    /\ \E fails \in BOOLEAN :
         LET context == contexts[Len(results) + 1]
             dataErr == GatherData(context, gopts, fails)
         IN  /\ collected' = Append(collected, [context |-> context, err |-> dataErr])
             /\ results' = Append(results, GatherCallback(dataErr))
    /\ UNCHANGED <<gpc, gopts, contexts, exited>>
    /\ UNCHANGED <<bvars, rvars, cvars>>

\* gatherCmd.Run, line 55: exit.OnError on what RunOnAllContexts returned.
GatherExit ==
    /\ gpc = "RunOnAllContexts"
    /\ Len(results) = Len(contexts)
    /\ gpc' = "exited"
    /\ exited' = OnError(RunOnAllContextsResult(contexts, results))
    /\ UNCHANGED <<gopts, contexts, collected, results>>
    /\ UNCHANGED <<bvars, rvars, cvars>>

GatherNext == GatherRun \/ GatherOnContext \/ GatherExit

GatherSpec == GatherInit /\ [][GatherNext]_vars

\* ------------------------------------------------------------- RHOS RunOn

\* What readMetadataFile may return: (infraID, projectID, err).  A file that
\* cannot be read or parsed gives the error; a file may lack either key.
MetadataReads ==
    {[InfraID |-> "", ProjectID |-> "", err |-> <<"cannot read metadata file">>],
     [InfraID |-> "infra-from-file", ProjectID |-> "project-from-file", err |-> NoError],
     [InfraID |-> "", ProjectID |-> "project-from-file", err |-> NoError]}

\* os.Getenv("OS_REGION_NAME"): empty when the variable is not set.
RegionEnvironment == {"", "region-from-env"}

RhosConfigs ==
    [DedicatedGateway : {TRUE},
     InfraID : {"", "infra-supplied"},
     Region : {"", "region-supplied"},
     ProjectID : {"", "project-supplied"},
     OcpMetadataFile : {"", "metadata.json"},
     CloudEntry : {"", "mycloud"}]

RhosInit ==
    /\ BrokerIdle
    /\ GatherIdle
    /\ ConcIdle
    /\ rpc = "RunOn"
    /\ rconfig \in RhosConfigs
    /\ rsteps = <<>>
    /\ rinvoked = <<>>
    /\ rerr = NoError

RunOnReturn(e) == rpc' = "returned" /\ rerr' = e

\* RunOn, lines 52-66: the metadata file, when one is given, and the region.
RunOnMetadata ==
    /\ rpc = "RunOn"
    /\ IF rconfig.OcpMetadataFile # ""
       THEN \E m \in MetadataReads, region \in RegionEnvironment :
              /\ rsteps' = Append(rsteps, Call("readMetadataFile", m.err))
              /\ IF m.err # NoError
                 THEN /\ rconfig' = [rconfig EXCEPT !.InfraID = m.InfraID,
                                                    !.ProjectID = m.ProjectID]
                      /\ RunOnReturn(StatusError(m.err,
                            "Failed to read RHOS information from OCP metadata file"))
                 ELSE /\ rconfig' = [rconfig EXCEPT !.InfraID = m.InfraID,
                                                    !.ProjectID = m.ProjectID,
                                                    !.Region = region]
                      /\ rpc' = "credentials"
                      /\ UNCHANGED rerr
       ELSE rpc' = "credentials" /\ UNCHANGED <<rconfig, rsteps, rerr>>
    /\ UNCHANGED rinvoked
    /\ UNCHANGED <<bvars, gvars, cvars>>

\* RunOn going on to the REST mapper after the credentials failed.
RunOnCredentialsContinues ==
    /\ rpc = "credentials"
    /\ \E fault \in BOOLEAN :
         LET e == IF fault THEN <<"no credentials for cloud">> ELSE NoError
         IN  /\ rconfig' = IF rconfig.CloudEntry = ""
                           THEN [rconfig EXCEPT !.CloudEntry = "openstack"] ELSE rconfig
             /\ rsteps' = Append(rsteps, Call("AuthenticatedClient", e))
             /\ rpc' = "restMapper"
             /\ UNCHANGED rerr
    /\ UNCHANGED rinvoked
    /\ UNCHANGED <<bvars, gvars, cvars>>

\* RunOn, lines 68-84: the cloud entry's default and the credentials.
RunOnCredentials ==
    /\ rpc = "credentials"
    /\ \E fault \in BOOLEAN :
         LET e == IF fault THEN <<"no credentials for cloud">> ELSE NoError
         IN  /\ rconfig' = IF rconfig.CloudEntry = ""
                           THEN [rconfig EXCEPT !.CloudEntry = "openstack"] ELSE rconfig
             /\ rsteps' = Append(rsteps, Call("AuthenticatedClient", e))
             /\ IF e # NoError
                THEN RunOnReturn(StatusError(e, "error initializing RHOS Client"))
                ELSE rpc' = "restMapper" /\ UNCHANGED rerr
    /\ UNCHANGED rinvoked
    /\ UNCHANGED <<bvars, gvars, cvars>>

\* RunOn, lines 86-92: the REST mapper.
RunOnRestMapper ==
    /\ rpc = "restMapper"
    /\ \E fault \in BOOLEAN :
         LET e == IF fault THEN <<"cannot discover API groups">> ELSE NoError
         IN  /\ rsteps' = Append(rsteps, Call("BuildRestMapper", e))
             /\ IF e # NoError
                THEN RunOnReturn(StatusError(e, "error creating REST mapper"))
                ELSE rpc' = "function" /\ UNCHANGED rerr
    /\ UNCHANGED <<rconfig, rinvoked>>
    /\ UNCHANGED <<bvars, gvars, cvars>>

\* RunOn, lines 94-107: the CloudInfo, the deployers and the call of the
\* supplied function, whose error RunOn returns as it is.
RunOnFunction ==
    /\ rpc = "function"
    /\ \E fails \in BOOLEAN :
         LET cloudInfo == [InfraID |-> rconfig.InfraID, Region |-> rconfig.Region]
         IN  /\ rinvoked' = Append(rinvoked, cloudInfo)
             /\ RunOnReturn(IF fails THEN <<"cloud prepare failed">> ELSE NoError)
    /\ UNCHANGED <<rconfig, rsteps>>
    /\ UNCHANGED <<bvars, gvars, cvars>>

RhosNext == RunOnMetadata \/ RunOnCredentials \/ RunOnRestMapper \/ RunOnFunction

RhosSpec == RhosInit /\ [][RhosNext]_vars

\* -------------------------------------------- concurrent Broker runs

\* The two callers that run Broker against one target cluster.
Procs == {1, 2}

\* The range each caller asks for.
ConcRanges == <<"242.0.0.0/30", "243.0.0.0/29">>

ConcSpecs(range) ==
    [Components : {<<ServiceDiscovery>>, <<ServiceDiscovery, Connectivity>>},
     GlobalnetEnabled : {TRUE},
     GlobalnetCIDRRange : {range},
     DefaultGlobalnetClusterSize : {0, 2}]

\* The target API's answer to a write made with a stale resource version.
ConflictError == <<"the object has been modified; please apply your changes to the latest version">>

\* The shared cluster: its objects and each object's resource version.
EmptyVersions == [rbac |-> 0, operator |-> 0, brokerCR |-> 0, configMap |-> 0]

ConcInit ==
    /\ BrokerIdle
    /\ GatherIdle
    /\ RhosIdle
    /\ \E s1 \in ConcSpecs(ConcRanges[1]), s2 \in ConcSpecs(ConcRanges[2]) :
         copts = <<BrokerOptions(s1), BrokerOptions(s2)>>
    /\ cpc = [p \in Procs |-> "Broker"]
    /\ cerr = [p \in Procs |-> NoError]
    /\ ccalls = [p \in Procs |-> <<>>]
    /\ cseen = [p \in Procs |-> 0]
    /\ ccluster = [state |-> EmptyCluster, version |-> EmptyVersions]

ConcReturn(p, e) ==
    /\ cpc' = [cpc EXCEPT ![p] = "done"]
    /\ cerr' = [cerr EXCEPT ![p] = e]

ConcGoto(p, label) ==
    /\ cpc' = [cpc EXCEPT ![p] = label]
    /\ UNCHANGED cerr

ConcCalled(p, step, e) == ccalls' = [ccalls EXCEPT ![p] = Append(@, Call(step, e))]

\* An applier's write under the target API's optimistic concurrency: r is
\* what the applier does to the objects; the API rejects it when the object
\* changed since the applier read it.
VersionedWrite(cc, object, seen, r) ==
    IF r.err # NoError THEN [cluster |-> cc, err |-> r.err]
    ELSE IF cc.version[object] # seen THEN [cluster |-> cc, err |-> ConflictError]
    ELSE [cluster |-> [state |-> r.cluster,
                       version |-> [cc.version EXCEPT ![object] = @ + 1]],
          err |-> NoError]

\* A create under the target API: the version moves when the record is new.
VersionedCreate(cc, object, r) ==
    [cluster |-> [state |-> r.cluster,
                  version |-> IF r.cluster[object] # cc.state[object]
                              THEN [cc.version EXCEPT ![object] = @ + 1]
                              ELSE cc.version],
     err |-> r.err]

\* Broker, lines 49-64, in one of the concurrent runs (the local component
\* set, which nothing reads after line 60, is left out).
ConcBroker(p) ==
    /\ cpc[p] = "Broker"
    /\ \E e \in isValidComponents(SetsNew(copts[p].BrokerSpec.Components)) :
         IF e # NoError
         THEN /\ ConcReturn(p, StatusError(e, "invalid components parameter"))
              /\ UNCHANGED copts
         ELSE LET r == checkGlobalnetConfig(copts[p])
              IN  /\ copts' = [copts EXCEPT ![p] = r.options]
                  /\ IF r.err # NoError
                     THEN ConcReturn(p, StatusError(r.err, "invalid GlobalCIDR configuration"))
                     ELSE ConcGoto(p, "readRBAC")
    /\ UNCHANGED <<ccalls, cseen, ccluster>>
    /\ UNCHANGED <<bvars, gvars, rvars>>

\* The object an applier is about to read, by the run's position.
ReadObject(label) ==
    CASE label = "readRBAC" -> "rbac"
      [] label = "readOperator" -> "operator"
      [] label = "readBroker" -> "brokerCR"

WriteLabel(label) ==
    CASE label = "readRBAC" -> "deployRBAC"
      [] label = "readOperator" -> "deployOperator"
      [] label = "readBroker" -> "deployBroker"

\* An applier reads the object it is about to write and keeps its version.
ConcEnsureReads(p) ==
    /\ cpc[p] \in {"readRBAC", "readOperator", "readBroker"}
    /\ cseen' = [cseen EXCEPT ![p] = ccluster.version[ReadObject(cpc[p])]]
    /\ ConcGoto(p, WriteLabel(cpc[p]))
    /\ UNCHANGED <<copts, ccalls, ccluster>>
    /\ UNCHANGED <<bvars, gvars, rvars>>

\* deploy going on to the operator whatever broker.Ensure returned.
ConcDeployRBACSwallowsError(p) ==
    /\ cpc[p] = "deployRBAC"
    /\ \E fault \in BOOLEAN :
         LET r == VersionedWrite(ccluster, "rbac", cseen[p],
                     BrokerEnsure(ccluster.state, copts[p].BrokerSpec.Components,
                                  copts[p].BrokerNamespace, fault))
         IN  /\ ccluster' = r.cluster
             /\ ConcCalled(p, "rbac", r.err)
             /\ ConcGoto(p, "readOperator")
    /\ UNCHANGED <<copts, cseen>>
    /\ UNCHANGED <<bvars, gvars, rvars>>

\* deploy, lines 86-93, in one of the concurrent runs.
ConcDeployRBAC(p) ==
    /\ cpc[p] = "deployRBAC"
    /\ \E fault \in BOOLEAN :
         LET r == VersionedWrite(ccluster, "rbac", cseen[p],
                     BrokerEnsure(ccluster.state, copts[p].BrokerSpec.Components,
                                  copts[p].BrokerNamespace, fault))
         IN  /\ ccluster' = r.cluster
             /\ ConcCalled(p, "rbac", r.err)
             /\ IF r.err # NoError
                THEN ConcReturn(p, StatusError(r.err, "error setting up broker RBAC"))
                ELSE ConcGoto(p, "readOperator")
    /\ UNCHANGED <<copts, cseen>>
    /\ UNCHANGED <<bvars, gvars, rvars>>

\* deploy, lines 95-102, in one of the concurrent runs.
ConcDeployOperator(p) ==
    /\ cpc[p] = "deployOperator"
    /\ \E fault \in BOOLEAN :
         LET r == VersionedWrite(ccluster, "operator", cseen[p],
                     OperatorEnsure(ccluster.state, OperatorNamespace,
                                    GetOperatorImage(copts[p].Repository, copts[p].ImageVersion),
                                    copts[p].OperatorDebug, fault))
         IN  /\ ccluster' = r.cluster
             /\ ConcCalled(p, "operator", r.err)
             /\ IF r.err # NoError
                THEN ConcReturn(p, StatusError(r.err, "error deploying Submariner operator"))
                ELSE ConcGoto(p, "readBroker")
    /\ UNCHANGED <<copts, cseen>>
    /\ UNCHANGED <<bvars, gvars, rvars>>

\* deploy, lines 104-108, and Broker, lines 66-71, in one of the concurrent runs.
ConcDeployBrokerCR(p) ==
    /\ cpc[p] = "deployBroker"
    /\ \E fault \in BOOLEAN :
         LET r == VersionedWrite(ccluster, "brokerCR", cseen[p],
                     BrokerCREnsure(ccluster.state, copts[p].BrokerNamespace,
                                    copts[p].BrokerSpec, fault))
         IN  /\ ccluster' = r.cluster
             /\ ConcCalled(p, "brokercr", r.err)
             /\ IF StatusError(r.err, "Broker deployment failed") # NoError
                THEN ConcReturn(p, StatusError(r.err, "Broker deployment failed"))
                ELSE ConcGoto(p, IF NeedsValidateExisting(copts[p])
                                 THEN "validateExisting" ELSE "createConfigMap")
    /\ UNCHANGED <<copts, cseen>>
    /\ UNCHANGED <<bvars, gvars, rvars>>

\* Broker, lines 72-74, in one of the concurrent runs.
ConcValidateExisting(p) ==
    /\ cpc[p] = "validateExisting"
    /\ \E fault \in BOOLEAN :
         LET e == ValidateExistingGlobalNetworks(ccluster.state, copts[p].BrokerNamespace, fault)
         IN  /\ ConcCalled(p, "validateExisting", e)
             /\ IF e # NoError
                THEN ConcReturn(p, StatusError(e, "error validating existing globalCIDR configmap"))
                ELSE ConcGoto(p, "createConfigMap")
    /\ UNCHANGED <<copts, cseen, ccluster>>
    /\ UNCHANGED <<bvars, gvars, rvars>>

\* Broker, lines 77-82, in one of the concurrent runs.
ConcCreateConfigMap(p) ==
    /\ cpc[p] = "createConfigMap"
    /\ \E fault \in BOOLEAN :
         LET r == VersionedCreate(ccluster, "configMap",
                     CreateConfigMap(ccluster.state, copts[p].BrokerSpec.GlobalnetEnabled,
                                     copts[p].BrokerSpec.GlobalnetCIDRRange,
                                     copts[p].BrokerSpec.DefaultGlobalnetClusterSize,
                                     copts[p].BrokerNamespace, fault))
         IN  /\ ccluster' = r.cluster
             /\ ConcCalled(p, "createConfigMap", r.err)
             /\ ConcReturn(p, StatusError(r.err, "error creating globalCIDR configmap on Broker"))
    /\ UNCHANGED <<copts, cseen>>
    /\ UNCHANGED <<bvars, gvars, rvars>>

ConcNext ==
    \E p \in Procs :
        \/ ConcBroker(p)
        \/ ConcEnsureReads(p)
        \/ ConcDeployRBAC(p)
        \/ ConcDeployOperator(p)
        \/ ConcDeployBrokerCR(p)
        \/ ConcValidateExisting(p)
        \/ ConcCreateConfigMap(p)

ConcSpec == ConcInit /\ [][ConcNext]_vars

\* ------------------------------------------------------- specifications

BrokerStep ==
    \/ BrokerValidate
    \/ DeployRBAC
    \/ DeployOperator
    \/ DeployBrokerCR
    \/ BrokerValidateExisting
    \/ BrokerCreateConfigMap

Next == BrokerStep \/ Rerun

Spec == Init /\ [][Next]_vars

\* Every collaborator call returns, so a running Broker call takes its next step.
FairSpec == Spec /\ WF_vars(BrokerStep)

\* ---------------------------------------------------------------- claims

\* The pipeline step a collaborator call belongs to (spec section 4.3).
StepOf(step) ==
    CASE step = "rbac" -> 1
      [] step = "operator" -> 2
      [] step = "brokercr" -> 3
      [] step = "validateExisting" -> 4
      [] step = "createConfigMap" -> 5

Called(step) == \E i \in DOMAIN calls : calls[i].step = step

Done == pc = "done"
Failed == Done /\ err # NoError
Succeeded == Done /\ err = NoError

RequestedComponents == SetsNew(input.BrokerSpec.Components)
ComponentsAcceptable ==
    RequestedComponents # {} /\ RequestedComponents \subseteq {ServiceDiscovery, Connectivity}

\* Broker returned one of its two validation errors.
InvalidConfiguration ==
    /\ Failed
    /\ err[1] \in {"invalid components parameter", "invalid GlobalCIDR configuration"}

\* C1: the collaborator calls of a run are made in the order RBAC, operator,
\* broker object, existing-globalnet validation, configuration record; each
\* at most once; a call is made only after every earlier call of the run
\* returned success, and the first three steps are never skipped.
C1_StepsInOrderFailFast ==
    /\ \A i, j \in DOMAIN calls : i < j => StepOf(calls[i].step) < StepOf(calls[j].step)
    /\ \A i \in DOMAIN calls : i < Len(calls) => calls[i].err = NoError
    /\ \A j \in DOMAIN calls :
         \A k \in 1..3 : k < StepOf(calls[j].step) =>
            \E i \in 1..(j - 1) : StepOf(calls[i].step) = k /\ calls[i].err = NoError

\* C1 witness: the operator step failed after a successful RBAC step.
C1_Witness ==
    /\ Failed
    /\ Len(calls) = 2
    /\ calls[1] = Call("rbac", NoError)
    /\ calls[2].step = "operator" /\ calls[2].err # NoError

\* C2: a run whose input fails validation (unknown or no component, a bad
\* range, a size that does not fit) never calls a collaborator and never
\* changes the cluster, and a run that returned a validation error has
\* called none.
C2_ValidationBeforeSideEffects ==
    /\ InvalidConfiguration => calls = <<>> /\ cluster = startCluster
    /\ (~ComponentsAcceptable \/ checkGlobalnetConfig(input).err # NoError) =>
          /\ calls = <<>>
          /\ cluster = startCluster
          /\ Done => InvalidConfiguration

\* C2 witness: acceptable components, a size that does not fit the range.
C2_Witness ==
    /\ InvalidConfiguration
    /\ ComponentsAcceptable
    /\ err[1] = "invalid GlobalCIDR configuration"
    /\ input.BrokerSpec.GlobalnetCIDRRange = "242.0.0.0/30"
    /\ input.BrokerSpec.DefaultGlobalnetClusterSize = 4

\* C3: once the component validator has run, Broker has returned "invalid
\* components parameter" exactly when the requested set is empty or has a
\* member outside {service-discovery, connectivity}; a rejection leaves the
\* options and the cluster as they were.
C3_ComponentsAcceptedIff ==
    pc # "Broker" =>
       /\ (Failed /\ err[1] = "invalid components parameter") <=> ~ComponentsAcceptable
       /\ ~ComponentsAcceptable => options = input /\ cluster = startCluster /\ calls = <<>>

\* C3 witness: a set with a known and an unknown member was rejected.
C3_Witness ==
    /\ Failed
    /\ err[1] = "invalid components parameter"
    /\ RequestedComponents = {ServiceDiscovery, Globalnet}

\* C4 as claimed: with globalnet disabled neither the validation of the
\* existing configuration nor the creation of the record is called.
C4_Original ==
    ~input.BrokerSpec.GlobalnetEnabled =>
        ~Called("validateExisting") /\ ~Called("createConfigMap")

\* C4 amended: with globalnet disabled the validation of the existing
\* configuration is never called; the creation of the configuration record
\* is still called once the three deployment steps succeeded, and a record
\* it creates carries the enabled flag false.
C4_DisabledSkipsValidationOnly ==
    ~input.BrokerSpec.GlobalnetEnabled =>
        /\ ~Called("validateExisting")
        /\ pc # "validateExisting"
        /\ Succeeded => Called("createConfigMap")
        /\ (Done /\ Len(calls) >= 3 /\ calls[3].err = NoError) => Called("createConfigMap")
        /\ cluster.configMap # startCluster.configMap =>
              cluster.configMap[1].enabled = FALSE

\* C4 witness: a disabled run that succeeded and created the record.
C4_Witness ==
    /\ ~input.BrokerSpec.GlobalnetEnabled
    /\ Succeeded
    /\ startCluster.configMap = <<>>
    /\ cluster.configMap # <<>>

\* The cluster held, when the run started, an enabled globalnet
\* configuration of another range than the one requested.
ConflictingState ==
    /\ startCluster.configMap # <<>>
    /\ startCluster.configMap[1].enabled
    /\ startCluster.configMap[1].range # input.BrokerSpec.GlobalnetCIDRRange

\* C5: with globalnet enabled and a conflicting configuration in the
\* cluster, the run ends in an error and the record is left as it was.
C5_ConflictIsFatal ==
    (Done /\ input.BrokerSpec.GlobalnetEnabled /\ ConflictingState) =>
        /\ err # NoError
        /\ cluster.configMap = startCluster.configMap

\* A requested type or module is outside the known sets.
GatherArgumentsInvalid ==
    \/ \E i \in DOMAIN gopts.Types : gopts.Types[i] \notin AllTypes
    \/ \E i \in DOMAIN gopts.Modules : gopts.Modules[i] \notin AllModules

\* C6: with a type outside the known types or a module outside the known
\* modules, gather.Data is never called on any context and the command exits
\* with code 1 and "Invalid argument".
C6_InvalidArgumentsContactNoCluster ==
    GatherArgumentsInvalid =>
        /\ collected = <<>>
        /\ results = <<>>
        /\ gpc \in {"Run", "exited"}
        /\ gpc = "exited" => exited.code = 1 /\ exited.message[1] = "Invalid argument"

\* C6 witness: the types were fine, a module was not, and the command exited.
C6_Witness ==
    /\ gpc = "exited"
    /\ gopts.Types = <<"logs">>
    /\ gopts.Modules = <<"broker", "badmodule">>

\* The contexts whose collection failed.
FailedContexts == {collected[i].context : i \in {j \in DOMAIN collected : collected[j].err # NoError}}

C8_DisabledShortCircuits ==
    (~input.BrokerSpec.GlobalnetEnabled /\ ComponentsAcceptable /\ pc # "Broker") =>
        /\ options = input
        /\ ~InvalidConfiguration
        /\ checkGlobalnetConfig(input) = [options |-> input, err |-> NoError]

\* C8 witness: a malformed range and a size that fits nothing went through.
C8_Witness ==
    /\ ~input.BrokerSpec.GlobalnetEnabled
    /\ input.BrokerSpec.GlobalnetCIDRRange = "not-a-cidr"
    /\ input.BrokerSpec.DefaultGlobalnetClusterSize = 3
    /\ pc = "deployRBAC"

\* The pipeline's state (spec section 4.3).
PipelineState ==
    CASE pc \in {"Broker", "deployRBAC"} -> "NotStarted"
      [] pc = "deployOperator" -> "RBACDone"
      [] pc = "deployBroker" -> "OperatorDone"
      [] pc \in {"validateExisting", "createConfigMap"} -> "BrokerDone"
      [] pc = "done" /\ err = NoError -> "GlobalnetDone"
      [] pc = "done" /\ err # NoError -> "Failed"

PipelineMoves ==
    {<<"NotStarted", "RBACDone">>, <<"RBACDone", "OperatorDone">>,
     <<"OperatorDone", "BrokerDone">>, <<"BrokerDone", "GlobalnetDone">>,
     <<"NotStarted", "Failed">>, <<"RBACDone", "Failed">>,
     <<"OperatorDone", "Failed">>, <<"BrokerDone", "Failed">>}

\* C9: within a run the pipeline state stays or moves along NotStarted,
\* RBACDone, OperatorDone, BrokerDone, GlobalnetDone, or to Failed; a run
\* that ended makes no further call and changes nothing in the cluster; a
\* new run starts only after the run before it ended; and every run ends.
C9_PipelineStateMachine ==
    /\ [][run' = run =>
            \/ PipelineState' = PipelineState
            \/ <<PipelineState, PipelineState'>> \in PipelineMoves]_vars
    /\ [][Done => cluster' = cluster /\ (calls' = calls \/ run' = run + 1)]_vars
    /\ [][run' # run => Done]_vars
    /\ ~Done ~> Done

\* C9 witness: a run failed at the broker object step and is over.
C9_Witness ==
    /\ PipelineState = "Failed"
    /\ Len(calls) = 3
    /\ calls[3].step = "brokercr"

\* No collaborator call of this run failed in transport.
NoTransportFailure == \A i \in DOMAIN calls : calls[i].err # TransportError

\* C10: a run with the input of a successful run before it, against the
\* cluster that run left, changes no object of the cluster and, its
\* collaborators answering, returns success.
C10_SecondRunIsNoOp ==
    (run > 1 /\ prevErr = NoError /\ NoTransportFailure) =>
        /\ cluster = startCluster
        /\ Done => err = NoError

\* C10 witness: the second run of a globalnet deployment ended in success.
C10_Witness ==
    /\ run = 2
    /\ prevErr = NoError
    /\ Succeeded
    /\ input.BrokerSpec.GlobalnetEnabled
    /\ input.BrokerSpec.DefaultGlobalnetClusterSize = 0
    /\ Len(calls) = 5

\* The context Broker and deploy attach to a failure of each call.
StepMessage(step) ==
    CASE step = "rbac" -> "error setting up broker RBAC"
      [] step = "operator" -> "error deploying Submariner operator"
      [] step = "brokercr" -> "Broker deployment failed"
      [] step = "validateExisting" -> "error validating existing globalCIDR configmap"
      [] step = "createConfigMap" -> "error creating globalCIDR configmap on Broker"

\* C11: a collaborator call that failed is the last call of its run, the run
\* returned that step's context followed by the call's own error, and a run
\* that returned an error other than a validation error has such a call; a
\* run that returned success has no failed call.
C11_ErrorNamesFailedStep ==
    /\ \A i \in DOMAIN calls :
         calls[i].err # NoError =>
            /\ i = Len(calls)
            /\ Failed
            /\ err = <<StepMessage(calls[i].step)>> \o calls[i].err
    /\ (Failed /\ ~InvalidConfiguration) =>
          calls # <<>> /\ calls[Len(calls)].err # NoError

\* C11 witness: the validation of the existing configuration failed on the
\* record the cluster held, and the error says so.
C11_Witness ==
    /\ Failed
    /\ Len(calls) = 4
    /\ err[1] = "error validating existing globalCIDR configmap"
    /\ Tail(err) = calls[4].err
    /\ calls[4].err # TransportError

UnknownComponents == RequestedComponents \ {ServiceDiscovery, Connectivity}

\* The error isValidComponents returned, under Broker's context.
ComponentsError == Tail(err)

\* C12 as claimed: the empty set is rejected with "at least one component
\* required", a set with an unknown member with "unknown component: <name>".
C12_Original ==
    (pc # "Broker" /\ ~ComponentsAcceptable) =>
        /\ Failed
        /\ IF RequestedComponents = {}
           THEN ComponentsError = <<"at least one component required">>
           ELSE \E c \in UnknownComponents : ComponentsError = <<"unknown component: ", c>>

\* C12 amended: the empty set is rejected with "at least one component must
\* be provided for deployment", a set with unknown members with "unknown
\* component: <name>" naming one of its unknown members.
C12_ValidatorMessages ==
    (pc # "Broker" /\ ~ComponentsAcceptable) =>
        /\ Failed
        /\ err[1] = "invalid components parameter"
        /\ IF RequestedComponents = {}
           THEN ComponentsError =
                   <<"at least one component must be provided for deployment">>
           ELSE \E c \in UnknownComponents : ComponentsError = <<"unknown component: ", c>>

\* C12 witness: the empty component list was rejected.
C12_Witness ==
    /\ Failed
    /\ RequestedComponents = {}
    /\ ComponentsError = <<"at least one component must be provided for deployment">>

\* The call of the step was made in this run and returned success.
CallSucceeded(step) == \E i \in DOMAIN calls : calls[i] = Call(step, NoError)

\* C15: with globalnet enabled, the component list the RBAC step was given
\* and the one in the BrokerSpec the broker object step was given hold
\* globalnet.
C15_GlobalnetAdded ==
    input.BrokerSpec.GlobalnetEnabled =>
        /\ CallSucceeded("rbac") => Globalnet \in SetsNew(cluster.rbac[1].components)
        /\ CallSucceeded("brokercr") =>
              Globalnet \in SetsNew(cluster.brokerCR[1].spec.Components)

\* The record of the globalnet configuration was created by this run.
RecordCreated == startCluster.configMap = <<>> /\ cluster.configMap # <<>>

\* C16: with globalnet enabled and a size of zero supplied, the BrokerSpec
\* the broker object step was given and the record the run created hold the
\* non-zero size the validator computed.
C16_DefaultSizeUsed ==
    (input.BrokerSpec.GlobalnetEnabled /\ input.BrokerSpec.DefaultGlobalnetClusterSize = 0) =>
        /\ CallSucceeded("brokercr") =>
              /\ cluster.brokerCR[1].spec.DefaultGlobalnetClusterSize # 0
              /\ cluster.brokerCR[1].spec.DefaultGlobalnetClusterSize =
                    GetValidClusterSize(input.BrokerSpec.GlobalnetCIDRRange, 0).size
        /\ RecordCreated =>
              /\ cluster.configMap[1].size # 0
              /\ cluster.configMap[1].size =
                    GetValidClusterSize(input.BrokerSpec.GlobalnetCIDRRange, 0).size

\* C16 witness: a run with size zero created the record with the default.
C16_Witness ==
    /\ input.BrokerSpec.GlobalnetEnabled
    /\ input.BrokerSpec.DefaultGlobalnetClusterSize = 0
    /\ input.BrokerSpec.GlobalnetCIDRRange = "243.0.0.0/29"
    /\ Succeeded
    /\ RecordCreated
    /\ cluster.configMap[1].size = 4
    /\ cluster.brokerCR[1].spec.DefaultGlobalnetClusterSize = 4

\* checkGlobalnetConfig has run (the component validator accepted the set).
GlobalnetConfigChecked == pc # "Broker" /\ ComponentsAcceptable

\* C17 as claimed: the BrokerSpec is as supplied, unless the supplied size
\* was zero and validation succeeded, when only the size differs.
C17_Original ==
    GlobalnetConfigChecked =>
        \/ options = input
        \/ /\ input.BrokerSpec.DefaultGlobalnetClusterSize = 0
           /\ ~InvalidConfiguration
           /\ options = [input EXCEPT !.BrokerSpec.DefaultGlobalnetClusterSize =
                                         options.BrokerSpec.DefaultGlobalnetClusterSize]

\* C17 amended: checkGlobalnetConfig changes no field but the size; with
\* globalnet disabled it changes nothing; with globalnet enabled the size is
\* the one GetValidClusterSize returned, whether or not the validation of the
\* size and of the range succeeded.
C17_OnlySizeWritten ==
    GlobalnetConfigChecked =>
        /\ options = [input EXCEPT !.BrokerSpec.DefaultGlobalnetClusterSize =
                                      options.BrokerSpec.DefaultGlobalnetClusterSize]
        /\ ~input.BrokerSpec.GlobalnetEnabled => options = input
        /\ input.BrokerSpec.GlobalnetEnabled =>
              options.BrokerSpec.DefaultGlobalnetClusterSize =
                 GetValidClusterSize(input.BrokerSpec.GlobalnetCIDRRange,
                                     input.BrokerSpec.DefaultGlobalnetClusterSize).size

\* C17 witness: the default was stored although the range was then rejected.
C17_Witness ==
    /\ InvalidConfiguration
    /\ ComponentsAcceptable
    /\ input.BrokerSpec.GlobalnetCIDRRange = "127.0.0.0/30"
    /\ input.BrokerSpec.DefaultGlobalnetClusterSize = 0
    /\ options.BrokerSpec.DefaultGlobalnetClusterSize = 2

\* The preparation step ended in success in this run of RunOn.
Prepared(step) == \E i \in DOMAIN rsteps : rsteps[i] = Call(step, NoError)

PreparationOrder(step) ==
    CASE step = "readMetadataFile" -> 1
      [] step = "AuthenticatedClient" -> 2
      [] step = "BuildRestMapper" -> 3

\* C13: the supplied function is called only with a non-empty infra ID and
\* a non-empty region.
C13_InfraIDAndRegionSpecified ==
    \A i \in DOMAIN rinvoked : rinvoked[i].InfraID # "" /\ rinvoked[i].Region # ""

\* C19: the supplied function is called at most once, and only after the
\* metadata file (when one is given) was read, the credentials were obtained
\* and the REST mapper was built, each with success and in that order; after
\* a step that failed no later step is attempted, the function is not called
\* and RunOn returns an error.
C19_FunctionAfterPreparation ==
    /\ Len(rinvoked) <= 1
    /\ \A i, j \in DOMAIN rsteps :
         i < j => PreparationOrder(rsteps[i].step) < PreparationOrder(rsteps[j].step)
    /\ \A i \in DOMAIN rsteps :
         rsteps[i].err # NoError =>
            /\ i = Len(rsteps)
            /\ rinvoked = <<>>
            /\ rpc = "returned"
            /\ rerr # NoError
    /\ rinvoked # <<>> =>
          /\ Prepared("AuthenticatedClient")
          /\ Prepared("BuildRestMapper")
          /\ rconfig.OcpMetadataFile # "" => Prepared("readMetadataFile")
    /\ \A j \in DOMAIN rsteps :
         rsteps[j].step = "BuildRestMapper" => Prepared("AuthenticatedClient")

\* C19 witness: the REST mapper failed after the file and the credentials
\* succeeded, and the function was not called.
C19_Witness ==
    /\ rpc = "returned"
    /\ Len(rsteps) = 3
    /\ rsteps[3].step = "BuildRestMapper" /\ rsteps[3].err # NoError
    /\ rinvoked = <<>>
    /\ rerr[1] = "error creating REST mapper"

\* The cause a returned error carries under its step's context.
Cause(e) == IF Len(e) > 1 THEN Tail(e) ELSE NoError

\* The run p made a call that the target API rejected as a conflict.
RejectedForConflict(p) ==
    \E i \in DOMAIN ccalls[p] : ccalls[p][i].err = ConflictError

C14_State ==
    /\ ConflictError # TransportError
    /\ \A p \in Procs :
         /\ \A i \in DOMAIN ccalls[p] :
              ccalls[p][i].err = ConflictError =>
                 /\ i = Len(ccalls[p])
                 /\ cpc[p] = "done"
                 /\ cerr[p] = <<StepMessage(ccalls[p][i].step)>> \o ConflictError
         /\ (cpc[p] = "done" /\ Cause(cerr[p]) = ConflictError) => RejectedForConflict(p)

C14_Step ==
    \A p \in Procs :
        (Len(ccalls'[p]) > Len(ccalls[p])
            /\ ccalls'[p][Len(ccalls'[p])].err = ConflictError)
        => ccluster' = ccluster

RecordIsOf(p) ==
    ccluster.state.configMap =
        <<[enabled |-> TRUE,
           range |-> copts[p].BrokerSpec.GlobalnetCIDRRange,
           size |-> copts[p].BrokerSpec.DefaultGlobalnetClusterSize,
           namespace |-> copts[p].BrokerNamespace]>>

ConcSucceeded(p) == cpc[p] = "done" /\ cerr[p] = NoError

\* C18: of two runs that ask for different ranges at most one returns
\* success, and a run that returned success finds its own range and cluster
\* size in the globalnet record.
C18_OneRangeWins ==
    /\ ~(ConcSucceeded(1) /\ ConcSucceeded(2))
    /\ \A p \in Procs : ConcSucceeded(p) => RecordIsOf(p)

====
